---- MODULE Spec2Model ----
(***************************************************************************)
(* Model of the primal module of fusion-blossom:                           *)
(*   src/src/primal_module.rs           the blossom expansion engine       *)
(*                                      (IntermediateMatching,             *)
(*                                      PerfectMatching)                   *)
(*   src/src/primal_module_parallel.rs  the parallel primal module and its *)
(*                                      end-to-end test                    *)
(*                                                                         *)
(* The node forest is an arena: a function from node indices 0..n-1 to     *)
(* node records.  A DualNodePtr / DualNodeWeak is a node index, an         *)
(* Option<DualNodeWeak> is a sequence of length 0 (None) or 1 (Some).      *)
(* Rust vectors are sequences; Rust positions are 0-based, so element idx  *)
(* of a vector v is v[idx + 1] here.                                       *)
(***************************************************************************)
EXTENDS Integers, Sequences, FiniteSets, TLC

VARIABLES
    nodes,                  \* the node forest: index -> DualNode
    debug_assertions,       \* build profile: TRUE = debug, FALSE = release
    intermediate_matching,  \* the IntermediateMatching value held by the caller
    perfect_matching,       \* the PerfectMatching value held by the caller
    pc,                     \* position of the caller
    call,                   \* the last operation called, with its arguments
    ret,                    \* what that operation returned, or how it panicked
    test_args,              \* arguments of the parallel end-to-end test helper
    test_pc,                \* position of the parallel end-to-end test helper
    test_panic              \* panic message of the test helper ("" = none)

vars == <<nodes, debug_assertions, intermediate_matching, perfect_matching,
          pc, call, ret, test_args, test_pc, test_panic>>

---------------------------------------------------------------------------
(* Bounds of the model *)

NumLeaves == 5

MaxBlossoms == 2

\* Depth of nested expand_blossom / expand_peer_matching calls the stack
\* holds.  A well-formed forest of MaxBlossoms nested blossoms needs
\* 2 * MaxBlossoms + 2 frames; a runaway recursion exhausts any stack.
StackLimit == 2 * MaxBlossoms + 4

---------------------------------------------------------------------------
(* Node model *)

SyndromeIndexOf(i) == 3 * i + 2

VirtualVertices == <<0, 3>>

\* a vertex that is neither a syndrome vertex nor a virtual vertex
UnknownVertex == SyndromeIndexOf(NumLeaves) + 2

SyndromeVertexNode(i) ==
    [index |-> i, class |-> "SyndromeVertex", syndrome_index |-> SyndromeIndexOf(i),
     nodes_circle |-> <<>>, touching_children |-> <<>>, parent_blossom |-> <<>>]

BlossomNode(i, circle, touching) ==
    [index |-> i, class |-> "Blossom", syndrome_index |-> 0 - 1,
     nodes_circle |-> circle, touching_children |-> touching, parent_blossom |-> <<>>]

Range(s) == {s[k] : k \in 1..Len(s)}

IsBlossom(f, n) == f[n].class = "Blossom"

IsSyndrome(f, n) == f[n].class = "SyndromeVertex"

Tops(f) == {n \in DOMAIN f : f[n].parent_blossom = <<>>}

\* the syndrome vertices below a node, following nodes_circle downwards
RECURSIVE LeavesUnder(_, _)
LeavesUnder(f, n) ==
    IF IsSyndrome(f, n) THEN {n}
    ELSE UNION {LeavesUnder(f, c) : c \in Range(f[n].nodes_circle)}

\* the nodes below a node (itself included), following nodes_circle downwards
RECURSIVE Subtree(_, _)
Subtree(f, n) ==
    {n} \cup UNION {Subtree(f, c) : c \in Range(f[n].nodes_circle)}

\* the ancestors of a node (itself included), following parent_blossom upwards
RECURSIVE AncestorsOrSelf(_, _)
AncestorsOrSelf(f, n) ==
    IF f[n].parent_blossom = <<>> THEN {n}
    ELSE {n} \cup AncestorsOrSelf(f, f[n].parent_blossom[1])

\* the parentless node at the end of a node's parent_blossom chain
RECURSIVE RootOf(_, _)
RootOf(f, n) ==
    IF f[n].parent_blossom = <<>> THEN n ELSE RootOf(f, f[n].parent_blossom[1])

\* ascending sequence of a finite set of integers
RECURSIVE SortedSeq(_)
SortedSeq(S) ==
    IF S = {} THEN <<>>
    ELSE LET m == CHOOSE x \in S : \A y \in S : x <= y
         IN  <<m>> \o SortedSeq(S \ {m})

Reverse(s) == [k \in 1..Len(s) |-> s[Len(s) + 1 - k]]

---------------------------------------------------------------------------
(* The forests the expansion engine is run on *)

LeafForest == [i \in 0..(NumLeaves - 1) |-> SyndromeVertexNode(i)]

NumBlossoms(f) == Cardinality({n \in DOMAIN f : IsBlossom(f, n)})

\* a blossom over the circle, with the given touching children, added on top
AddBlossom(f, circle, touching) ==
    LET b == Cardinality(DOMAIN f)
    IN  [n \in DOMAIN f \cup {b} |->
            IF n = b THEN BlossomNode(b, circle, touching)
            ELSE IF n \in Range(circle) THEN [f[n] EXCEPT !.parent_blossom = <<b>>]
            ELSE f[n]]

\* circles of odd length >= 3 over top-level nodes: any set of top-level
\* blossoms, filled up with the lowest top-level syndrome vertices
Circles(f) ==
    LET topB == {n \in Tops(f) : IsBlossom(f, n)}
        topL == SortedSeq({n \in Tops(f) : IsSyndrome(f, n)})
    IN  {SortedSeq(BS \cup Range(SubSeq(topL, 1, k - Cardinality(BS)))) :
            <<BS, k>> \in {x \in (SUBSET topB) \X {j \in 3..NumLeaves : j % 2 = 1} :
                             /\ Cardinality(x[1]) <= x[2]
                             /\ x[2] - Cardinality(x[1]) <= Len(topL)}}

\* for each circle entry a pair (left touch, right touch) of syndrome
\* vertices below that entry
RECURSIVE TouchingChoices(_, _)
TouchingChoices(f, circle) ==
    IF circle = <<>> THEN {<<>>}
    ELSE {<<p>> \o rest :
            p \in LeavesUnder(f, Head(circle)) \X LeavesUnder(f, Head(circle)),
            rest \in TouchingChoices(f, Tail(circle))}

RECURSIVE ForestsWith(_)
ForestsWith(m) ==
    IF m = 0 THEN {LeafForest}
    ELSE {AddBlossom(f, c, t) :
            <<f, c, t>> \in UNION {UNION {{<<g, d, u>> : u \in TouchingChoices(g, d)}
                                             : d \in Circles(g)}
                                      : g \in ForestsWith(m - 1)}}

WellFormedForests == UNION {ForestsWith(m) : m \in 0..MaxBlossoms}

\* structural corruptions: a parent link lost, a parent link pointing at a
\* node that does not list the child, a circle cut short
Orphaned(f) ==
    {[f EXCEPT ![x].parent_blossom = <<>>] : x \in DOMAIN f \ Tops(f)}

Reparented(f) ==
    UNION {{[f EXCEPT ![x].parent_blossom = <<y>>] :
                y \in DOMAIN f \ (Subtree(f, x) \cup {f[x].parent_blossom[1]})}
            : x \in DOMAIN f \ Tops(f)}

Truncated(f) ==
    UNION {{[f EXCEPT ![b].nodes_circle = SubSeq(@, 1, m),
                       ![b].touching_children = SubSeq(@, 1, m)] :
                m \in 0..(Len(f[b].nodes_circle) - 1)}
            : b \in {n \in DOMAIN f : IsBlossom(f, n)}}

CorruptedForests ==
    UNION {Orphaned(f) \cup Reparented(f) \cup Truncated(f) : f \in WellFormedForests}

AllForests == WellFormedForests \cup CorruptedForests

---------------------------------------------------------------------------
(* Results *)

NoIndex == 0 - 1

Ok(pairs, levels) ==
    [status |-> "ok", msg |-> "", index |-> NoIndex, pairs |-> pairs,
     virtual |-> <<>>, levels |-> levels, mwpm_result |-> <<>>]

Panic(msg, index) ==
    [status |-> "panic", msg |-> msg, index |-> index, pairs |-> <<>>,
     virtual |-> <<>>, levels |-> <<>>, mwpm_result |-> <<>>]

NoResult == [Ok(<<>>, <<>>) EXCEPT !.status = "none"]

NoCall == [op |-> "none", args |-> <<>>]

---------------------------------------------------------------------------
(* IntermediateMatching / PerfectMatching *)

IntermediateMatching_new == [peer_matchings |-> <<>>, virtual_matchings |-> <<>>]

PerfectMatching_new == [peer_matchings |-> <<>>, virtual_matchings |-> <<>>]

\* nodes_circle.iter().position(|ptr| ptr == &child_weak), 0-based; -1 = None
position(circle, child) ==
    IF \E k \in 1..Len(circle) : circle[k] = child
    THEN (CHOOSE k \in 1..Len(circle) :
            /\ circle[k] = child
            /\ \A j \in 1..(k - 1) : circle[j] # child) - 1
    ELSE NoIndex

\* level_steps with the pairing started at the child itself (off by one)
level_steps_from_child(parent, idx) ==
    LET n == Len(parent.nodes_circle)
    IN  [k \in 1..(n \div 2) |->
            LET i == 2 * (k - 1)
                idx_1 == (idx + i) % n
                idx_2 == (idx + i + 1) % n
            IN  [idx_1 |-> idx_1, idx_2 |-> idx_2,
                 dual_node_ptr_1 |-> parent.nodes_circle[idx_1 + 1],
                 dual_node_ptr_2 |-> parent.nodes_circle[idx_2 + 1],
                 touching_ptr_1 |-> parent.touching_children[idx_1 + 1][2],
                 touching_ptr_2 |-> parent.touching_children[idx_2 + 1][1]]]

\* level_steps with the left and right touching children mixed up
level_steps_sides_swapped(parent, idx) ==
    LET n == Len(parent.nodes_circle)
    IN  [k \in 1..(n \div 2) |->
            LET i == 2 * (k - 1)
                idx_1 == (idx + i + 1) % n
                idx_2 == (idx + i + 2) % n
            IN  [idx_1 |-> idx_1, idx_2 |-> idx_2,
                 dual_node_ptr_1 |-> parent.nodes_circle[idx_1 + 1],
                 dual_node_ptr_2 |-> parent.nodes_circle[idx_2 + 1],
                 touching_ptr_1 |-> parent.touching_children[idx_1 + 1][1],
                 touching_ptr_2 |-> parent.touching_children[idx_2 + 1][2]]]

\* the iterations of `for i in (0..(nodes_circle.len()-1)).step_by(2)`:
\* i = 0, 2, 4, ... < len - 1, each with the two circle positions it pairs
\* and the touching children it pairs them through
level_steps(parent, idx) ==
    LET n == Len(parent.nodes_circle)
    IN  [k \in 1..(n \div 2) |->
            LET i == 2 * (k - 1)
                idx_1 == (idx + i + 1) % n
                idx_2 == (idx + i + 2) % n
            IN  [idx_1 |-> idx_1, idx_2 |-> idx_2,
                 dual_node_ptr_1 |-> parent.nodes_circle[idx_1 + 1],
                 dual_node_ptr_2 |-> parent.nodes_circle[idx_2 + 1],
                 touching_ptr_1 |-> parent.touching_children[idx_1 + 1][2],
                 touching_ptr_2 |-> parent.touching_children[idx_2 + 1][1]]]

RECURSIVE expand_blossom_at(_, _, _)
RECURSIVE expand_blossom_walk(_, _, _, _)
RECURSIVE expand_blossom_level(_, _, _, _)
RECURSIVE expand_peer_matching_at(_, _, _, _, _)

\* peer_pair pushing the expanded nodes instead of their touching children
peer_pair_of_nodes(dual_node_ptr_1, touching_ptr_1, dual_node_ptr_2, touching_ptr_2) ==
    <<dual_node_ptr_1, dual_node_ptr_2>>

\* the pair pushed by expand_peer_matching after both sides are expanded
peer_pair(dual_node_ptr_1, touching_ptr_1, dual_node_ptr_2, touching_ptr_2) ==
    <<touching_ptr_1, touching_ptr_2>>

\* expand_peer_matching, called at stack depth `depth`
expand_peer_matching_at(dual_node_ptr_1, touching_ptr_1, dual_node_ptr_2, touching_ptr_2, depth) ==
    IF depth > StackLimit THEN Panic("stack overflow", NoIndex)
    ELSE LET r1 == expand_blossom_at(dual_node_ptr_1, touching_ptr_1, depth + 1)
         IN  IF r1.status = "panic" THEN r1
             ELSE LET r2 == expand_blossom_at(dual_node_ptr_2, touching_ptr_2, depth + 1)
                  IN  IF r2.status = "panic" THEN r2
                      ELSE Ok(r1.pairs \o r2.pairs
                                \o <<peer_pair(dual_node_ptr_1, touching_ptr_1,
                                               dual_node_ptr_2, touching_ptr_2)>>,
                              r1.levels \o r2.levels)

\* the for loop of expand_blossom over the steps of one level, from step k on
expand_blossom_level(steps, k, acc, depth) ==
    IF k > Len(steps) THEN acc
    ELSE LET s == steps[k]
             r == expand_peer_matching_at(s.dual_node_ptr_1, s.touching_ptr_1,
                                          s.dual_node_ptr_2, s.touching_ptr_2, depth + 1)
         IN  IF r.status = "panic" THEN r
             ELSE expand_blossom_level(steps, k + 1,
                                       Ok(acc.pairs \o r.pairs, acc.levels \o r.levels), depth)

\* no_parent ending the walk quietly with the pairs found so far
no_parent_truncates(child, acc) == acc

\* the else branch of `if let Some(parent_blossom_weak) = child.parent_blossom`
no_parent(child, acc) == Panic("cannot find parent of", child.index)

\* whether the debug_assert!(len % 2 == 1 && len >= 3) of expand_blossom fires
valid_blossom_assert_fails(n) ==
    debug_assertions /\ ~(n % 2 = 1 /\ n >= 3)

\* the while loop of expand_blossom, with child_ptr the node the walk is at
expand_blossom_walk(blossom_ptr, child_ptr, acc, depth) ==
    IF child_ptr = blossom_ptr THEN acc
    ELSE LET child == nodes[child_ptr]
         IN  IF child.parent_blossom = <<>>
             THEN no_parent(child, acc)
             ELSE LET parent_blossom_ptr == child.parent_blossom[1]
                      parent_blossom == nodes[parent_blossom_ptr]
                  IN  IF parent_blossom.class # "Blossom"
                      THEN expand_blossom_walk(blossom_ptr, parent_blossom_ptr,
                              Ok(acc.pairs,
                                 Append(acc.levels,
                                        [child |-> child_ptr, parent |-> parent_blossom_ptr,
                                         parent_is_blossom |-> FALSE, idx |-> NoIndex, n |-> 0,
                                         steps |-> <<>>])),
                              depth)
                      ELSE LET idx == position(parent_blossom.nodes_circle, child_ptr)
                               n == Len(parent_blossom.nodes_circle)
                           IN  IF idx = NoIndex THEN Panic("should find child", NoIndex)
                               ELSE IF valid_blossom_assert_fails(n)
                               THEN Panic("must be a valid blossom", NoIndex)
                               ELSE LET steps == level_steps(parent_blossom, idx)
                                        r == expand_blossom_level(steps, 1, Ok(<<>>, <<>>), depth)
                                    IN  IF r.status = "panic" THEN r
                                        ELSE expand_blossom_walk(blossom_ptr, parent_blossom_ptr,
                                                Ok(acc.pairs \o r.pairs,
                                                   (acc.levels \o r.levels) \o
                                                   <<[child |-> child_ptr,
                                                      parent |-> parent_blossom_ptr,
                                                      parent_is_blossom |-> TRUE, idx |-> idx, n |-> n,
                                                      steps |-> steps]>>),
                                                depth)

\* expand_blossom, called at stack depth `depth`
expand_blossom_at(blossom_ptr, touching_ptr, depth) ==
    IF depth > StackLimit THEN Panic("stack overflow", NoIndex)
    ELSE expand_blossom_walk(blossom_ptr, touching_ptr, Ok(<<>>, <<>>), depth)

expand_blossom(blossom_ptr, touching_ptr) ==
    expand_blossom_at(blossom_ptr, touching_ptr, 1)

expand_peer_matching(dual_node_ptr_1, touching_ptr_1, dual_node_ptr_2, touching_ptr_2) ==
    expand_peer_matching_at(dual_node_ptr_1, touching_ptr_1, dual_node_ptr_2, touching_ptr_2, 1)

\* get_perfect_matching: the loop over self.peer_matchings, from entry k on
RECURSIVE get_perfect_matching_peers(_, _, _)
get_perfect_matching_peers(im, k, acc) ==
    IF k > Len(im.peer_matchings) THEN acc
    ELSE LET e == im.peer_matchings[k]
             r == expand_peer_matching(e[1][1], e[1][2], e[2][1], e[2][2])
         IN  IF r.status = "panic" THEN r
             ELSE get_perfect_matching_peers(im, k + 1,
                     Ok(acc.pairs \o r.pairs, acc.levels \o r.levels))

\* get_perfect_matching: the loop over self.virtual_matchings, from entry k on
RECURSIVE get_perfect_matching_virtuals(_, _, _)
get_perfect_matching_virtuals(im, k, acc) ==
    IF k > Len(im.virtual_matchings) THEN acc
    ELSE LET e == im.virtual_matchings[k]
             r == expand_blossom(e[1][1], e[1][2])
         IN  IF r.status = "panic" THEN r
             ELSE get_perfect_matching_virtuals(im, k + 1,
                     [acc EXCEPT !.pairs = @ \o r.pairs,
                                 !.levels = @ \o r.levels,
                                 !.virtual = Append(@, <<e[1][2], e[2]>>)])

get_perfect_matching(im) ==
    LET peers == get_perfect_matching_peers(im, 1, Ok(<<>>, <<>>))
    IN  IF peers.status = "panic" THEN peers
        ELSE get_perfect_matching_virtuals(im, 1, peers)

\* the PerfectMatching value of a successful get_perfect_matching
PerfectMatchingOf(r) == [peer_matchings |-> r.pairs, virtual_matchings |-> r.virtual]

\* BTreeMap::insert: a later insert of the same key replaces the value
insert(map, key, value) ==
    [x \in DOMAIN map \cup {key} |-> IF x = key THEN value ELSE map[x]]

EmptyMap == [x \in {} |-> 0]

\* build_peer_matching_maps recording each pair in one direction only
RECURSIVE build_peer_matching_maps_one_way(_, _, _)
build_peer_matching_maps_one_way(pm, k, map) ==
    IF k > Len(pm.peer_matchings) THEN map
    ELSE LET a_vid == nodes[pm.peer_matchings[k][1]].syndrome_index
             b_vid == nodes[pm.peer_matchings[k][2]].syndrome_index
         IN  build_peer_matching_maps_one_way(pm, k + 1, insert(map, a_vid, b_vid))

\* legacy_get_mwpm_result: the loop building peer_matching_maps, from pair k on
RECURSIVE build_peer_matching_maps(_, _, _)
build_peer_matching_maps(pm, k, map) ==
    IF k > Len(pm.peer_matchings) THEN map
    ELSE LET a_vid == nodes[pm.peer_matchings[k][1]].syndrome_index
             b_vid == nodes[pm.peer_matchings[k][2]].syndrome_index
         IN  build_peer_matching_maps(pm, k + 1, insert(insert(map, a_vid, b_vid), b_vid, a_vid))

\* legacy_get_mwpm_result: the loop building virtual_matching_maps
RECURSIVE build_virtual_matching_maps(_, _, _)
build_virtual_matching_maps(pm, k, map) ==
    IF k > Len(pm.virtual_matchings) THEN map
    ELSE LET a_vid == nodes[pm.virtual_matchings[k][1]].syndrome_index
         IN  build_virtual_matching_maps(pm, k + 1, insert(map, a_vid, pm.virtual_matchings[k][2]))

\* mwpm_lookup answering a default vertex for a vertex in neither map
mwpm_lookup_defaulting(peer_matching_maps, virtual_matching_maps, syndrome_vertex) ==
    IF syndrome_vertex \in DOMAIN peer_matching_maps
    THEN <<TRUE, peer_matching_maps[syndrome_vertex]>>
    ELSE IF syndrome_vertex \in DOMAIN virtual_matching_maps
    THEN <<TRUE, virtual_matching_maps[syndrome_vertex]>>
    ELSE <<TRUE, 0>>

\* what one requested vertex contributes: <<TRUE, value pushed>> or <<FALSE, _>> (panic)
mwpm_lookup(peer_matching_maps, virtual_matching_maps, syndrome_vertex) ==
    IF syndrome_vertex \in DOMAIN peer_matching_maps
    THEN <<TRUE, peer_matching_maps[syndrome_vertex]>>
    ELSE IF syndrome_vertex \in DOMAIN virtual_matching_maps
    THEN <<TRUE, virtual_matching_maps[syndrome_vertex]>>
    ELSE <<FALSE, syndrome_vertex>>

\* legacy_get_mwpm_result: the loop over syndrome_vertices, from element k on
RECURSIVE build_mwpm_result(_, _, _, _, _)
build_mwpm_result(peer_matching_maps, virtual_matching_maps, syndrome_vertices, k, mwpm_result) ==
    IF k > Len(syndrome_vertices) THEN [Ok(<<>>, <<>>) EXCEPT !.mwpm_result = mwpm_result]
    ELSE LET found == mwpm_lookup(peer_matching_maps, virtual_matching_maps, syndrome_vertices[k])
         IN  IF found[1]
             THEN build_mwpm_result(peer_matching_maps, virtual_matching_maps, syndrome_vertices,
                                    k + 1, Append(mwpm_result, found[2]))
             ELSE Panic("cannot find syndrome vertex", found[2])

legacy_get_mwpm_result(pm, syndrome_vertices) ==
    IF \E k \in 1..Len(pm.peer_matchings) :
          \E side \in 1..2 : ~IsSyndrome(nodes, pm.peer_matchings[k][side])
    THEN Panic("can only be syndrome", NoIndex)
    ELSE IF \E k \in 1..Len(pm.virtual_matchings) : ~IsSyndrome(nodes, pm.virtual_matchings[k][1])
    THEN Panic("can only be syndrome", NoIndex)
    ELSE build_mwpm_result(build_peer_matching_maps(pm, 1, EmptyMap),
                           build_virtual_matching_maps(pm, 1, EmptyMap),
                           syndrome_vertices, 1, <<>>)

---------------------------------------------------------------------------
(* Inputs of the calls *)

\* for each top-level node of the sequence a touching syndrome vertex below it
RECURSIVE TopTouchings(_, _)
TopTouchings(f, T) ==
    IF T = <<>> THEN {<<>>}
    ELSE {<<t>> \o rest : t \in LeavesUnder(f, Head(T)), rest \in TopTouchings(f, Tail(T))}

\* the intermediate matchings over a forest: every top-level node once, the
\* first 2p of them (highest index first) in peer pairs, the others matched
\* to virtual vertices
IntermediateMatchings(f) ==
    LET T == Reverse(SortedSeq(Tops(f)))
    IN  {[peer_matchings |->
             [k \in 1..p |->
                 LET a == <<T[2 * k - 1], tc[2 * k - 1]>>
                     b == <<T[2 * k], tc[2 * k]>>
                 IN  IF flip THEN <<b, a>> ELSE <<a, b>>],
          virtual_matchings |->
             [k \in 1..(Len(T) - 2 * p) |->
                 <<<<T[2 * p + k], tc[2 * p + k]>>, VirtualVertices[((k + o) % 2) + 1]>>]] :
            tc \in TopTouchings(f, T), p \in 0..(Len(T) \div 2),
            flip \in BOOLEAN, o \in 0..1}

\* the vertex lists a caller asks legacy_get_mwpm_result about
QueryVertices == {SyndromeIndexOf(i) : i \in 0..(NumLeaves - 1)} \cup {UnknownVertex}

QueryLists ==
    {<<>>} \cup {<<a>> : a \in QueryVertices} \cup {<<a, b>> : a \in QueryVertices, b \in QueryVertices}

\* the calls of expand_peer_matching made from outside: two distinct
\* top-level nodes, each with a touching syndrome vertex below it
PeerCalls(f) ==
    {<<n1, t1, n2, t2>> \in (DOMAIN f) \X (DOMAIN f) \X (DOMAIN f) \X (DOMAIN f) :
        /\ n1 \in Tops(f) /\ n2 \in Tops(f) /\ n1 # n2
        /\ t1 \in LeavesUnder(f, n1) /\ t2 \in LeavesUnder(f, n2)}

---------------------------------------------------------------------------
(* The parallel primal module and its end-to-end test *)

\* PrimalModuleParallel::new_config: unimplemented!()
PrimalModuleParallel_new_config == Panic("not implemented", NoIndex)

\* the arguments primal_module_parallel_basic_1 passes to the test helper
Basic1Args ==
    [d |-> 11, half_weight |-> 500, syndrome_vertices |-> <<39, 52, 63, 90, 100>>,
     final_dual |-> 9 * 500, reordered_vertices |-> <<>>]

---------------------------------------------------------------------------
(* Specification *)

Init ==
    /\ nodes \in AllForests
    /\ debug_assertions \in BOOLEAN
    /\ intermediate_matching = IntermediateMatching_new
    /\ perfect_matching = PerfectMatching_new
    /\ pc = "idle"
    /\ call = NoCall
    /\ ret = NoResult
    /\ test_args = <<>>
    /\ test_pc = "none"
    /\ test_panic = ""

\* a caller invokes IntermediateMatching::expand_blossom
ExpandBlossomCall(blossom_ptr, touching_ptr) ==
    /\ pc = "idle"
    /\ call' = [op |-> "expand_blossom", args |-> <<blossom_ptr, touching_ptr>>]
    /\ ret' = expand_blossom(blossom_ptr, touching_ptr)
    /\ pc' = "returned"
    /\ UNCHANGED <<nodes, debug_assertions, intermediate_matching, perfect_matching,
                   test_args, test_pc, test_panic>>

\* a caller invokes IntermediateMatching::expand_peer_matching
ExpandPeerMatchingCall(dual_node_ptr_1, touching_ptr_1, dual_node_ptr_2, touching_ptr_2) ==
    /\ pc = "idle"
    /\ call' = [op |-> "expand_peer_matching",
                args |-> <<dual_node_ptr_1, touching_ptr_1, dual_node_ptr_2, touching_ptr_2>>]
    /\ ret' = expand_peer_matching(dual_node_ptr_1, touching_ptr_1, dual_node_ptr_2, touching_ptr_2)
    /\ pc' = "returned"
    /\ UNCHANGED <<nodes, debug_assertions, intermediate_matching, perfect_matching,
                   test_args, test_pc, test_panic>>

\* PrimalModuleImpl::perfect_matching, first statement: the primal module
\* hands out its intermediate matching
IntermediateMatchingObtained(im) ==
    /\ pc = "idle"
    /\ intermediate_matching' = im
    /\ call' = [op |-> "intermediate_matching", args |-> <<>>]
    /\ ret' = NoResult
    /\ pc' = "have_intermediate"
    /\ UNCHANGED <<nodes, debug_assertions, perfect_matching, test_args, test_pc, test_panic>>

\* GetPerfectMatchingCall draining the intermediate matching as it expands it
GetPerfectMatchingCall_draining ==
    /\ pc = "have_intermediate"
    /\ LET r == get_perfect_matching(intermediate_matching)
       IN  /\ ret' = r
           /\ perfect_matching' = IF r.status = "ok" THEN PerfectMatchingOf(r)
                                  ELSE perfect_matching
           /\ pc' = IF r.status = "ok" THEN "have_perfect" ELSE "returned"
    /\ call' = [op |-> "get_perfect_matching", args |-> <<>>]
    /\ intermediate_matching' = IntermediateMatching_new
    /\ UNCHANGED <<nodes, debug_assertions, test_args, test_pc, test_panic>>

\* PrimalModuleImpl::perfect_matching, second statement:
\* intermediate_matching.get_perfect_matching()
GetPerfectMatchingCall ==
    /\ pc = "have_intermediate"
    /\ LET r == get_perfect_matching(intermediate_matching)
       IN  /\ ret' = r
           /\ perfect_matching' = IF r.status = "ok" THEN PerfectMatchingOf(r)
                                  ELSE perfect_matching
           /\ pc' = IF r.status = "ok" THEN "have_perfect" ELSE "returned"
    /\ call' = [op |-> "get_perfect_matching", args |-> <<>>]
    /\ UNCHANGED <<nodes, debug_assertions, intermediate_matching,
                   test_args, test_pc, test_panic>>

\* a caller invokes PerfectMatching::legacy_get_mwpm_result on the matching it holds
LegacyGetMwpmResultCall(syndrome_vertices) ==
    /\ pc = "have_perfect"
    /\ call' = [op |-> "legacy_get_mwpm_result", args |-> syndrome_vertices]
    /\ ret' = legacy_get_mwpm_result(perfect_matching, syndrome_vertices)
    /\ pc' = "returned"
    /\ UNCHANGED <<nodes, debug_assertions, intermediate_matching, perfect_matching,
                   test_args, test_pc, test_panic>>

\* tests::primal_module_parallel_basic_1 calls the test helper
TestBasic1 ==
    /\ pc = "idle"
    /\ pc' = "testing"
    /\ test_args' = Basic1Args
    /\ test_pc' = "called"
    /\ UNCHANGED <<nodes, debug_assertions, intermediate_matching, perfect_matching,
                   call, ret, test_panic>>

\* the test helper up to the creation of the dual module (the collaborators
\* of lines 114-133 are outside this repository's sources and succeed)
TestCreateDualModule ==
    /\ test_pc = "called"
    /\ test_pc' = "dual_module_created"
    /\ UNCHANGED <<nodes, debug_assertions, intermediate_matching, perfect_matching,
                   pc, call, ret, test_args, test_panic>>

\* the test helper creates the primal module: PrimalModuleParallel::new_config
TestCreatePrimalModule ==
    /\ test_pc = "dual_module_created"
    /\ LET r == PrimalModuleParallel_new_config
       IN  /\ test_pc' = IF r.status = "panic" THEN "panicked" ELSE "primal_module_created"
           /\ test_panic' = r.msg
    /\ UNCHANGED <<nodes, debug_assertions, intermediate_matching, perfect_matching,
                   pc, call, ret, test_args>>

Next ==
    \/ /\ pc = "idle"
       /\ \E b \in DOMAIN nodes, t \in DOMAIN nodes : ExpandBlossomCall(b, t)
    \/ /\ pc = "idle"
       /\ \E a \in PeerCalls(nodes) : ExpandPeerMatchingCall(a[1], a[2], a[3], a[4])
    \/ /\ pc = "idle"
       /\ \E im \in IntermediateMatchings(nodes) : IntermediateMatchingObtained(im)
    \/ GetPerfectMatchingCall
    \/ /\ pc = "have_perfect"
       /\ \E S \in QueryLists : LegacyGetMwpmResultCall(S)
    \/ TestBasic1
    \/ TestCreateDualModule
    \/ TestCreatePrimalModule

Spec == Init /\ [][Next]_vars

---------------------------------------------------------------------------
(* Vocabulary of the properties *)

\* the node forest is well formed: every circle is odd and >= 3, lists
\* distinct nodes whose parent_blossom is the blossom, and gives each entry
\* touching children that are syndrome vertices below that entry; every
\* parent_blossom points at a blossom that lists the node
WellFormed(f) ==
    /\ \A b \in DOMAIN f : IsBlossom(f, b) =>
          LET circle == f[b].nodes_circle
              touching == f[b].touching_children
          IN  /\ Len(circle) % 2 = 1 /\ Len(circle) >= 3
              /\ Len(touching) = Len(circle)
              /\ \A j, k \in 1..Len(circle) : circle[j] = circle[k] => j = k
              /\ \A k \in 1..Len(circle) :
                    /\ f[circle[k]].parent_blossom = <<b>>
                    /\ \A side \in 1..2 :
                          /\ IsSyndrome(f, touching[k][side])
                          /\ circle[k] \in AncestorsOrSelf(f, touching[k][side])
    /\ \A x \in DOMAIN f : f[x].parent_blossom # <<>> =>
          /\ IsBlossom(f, f[x].parent_blossom[1])
          /\ x \in Range(f[f[x].parent_blossom[1]].nodes_circle)

\* every top-level node occurs in exactly one peer or virtual entry of the
\* intermediate matching, with a touching syndrome vertex below it
ValidMatching(f, im) ==
    LET entries == [k \in 1..(2 * Len(im.peer_matchings)) |->
                        im.peer_matchings[(k + 1) \div 2][2 - (k % 2)]]
                   \o [k \in 1..Len(im.virtual_matchings) |-> im.virtual_matchings[k][1]]
    IN  /\ \A n \in Tops(f) : Cardinality({k \in 1..Len(entries) : entries[k][1] = n}) = 1
        /\ \A k \in 1..Len(entries) :
              /\ entries[k][1] \in Tops(f)
              /\ IsSyndrome(f, entries[k][2])
              /\ entries[k][1] \in AncestorsOrSelf(f, entries[k][2])

\* how often a node occurs in the pairings of a result
Occurrences(r, n) ==
    Cardinality({k \in 1..Len(r.pairs) : r.pairs[k][1] = n})
    + Cardinality({k \in 1..Len(r.pairs) : r.pairs[k][2] = n})
    + Cardinality({k \in 1..Len(r.virtual) : r.virtual[k][1] = n})

ExpansionOps == {"get_perfect_matching", "expand_peer_matching", "expand_blossom"}

LevelsOf(r) == {r.levels[k] : k \in 1..Len(r.levels)}

\* the syndrome indices paired with vertex s in the peer matchings
PeersOf(pm, s) ==
    {nodes[pm.peer_matchings[k][2]].syndrome_index :
        k \in {j \in 1..Len(pm.peer_matchings) :
                 nodes[pm.peer_matchings[j][1]].syndrome_index = s}}
    \cup
    {nodes[pm.peer_matchings[k][1]].syndrome_index :
        k \in {j \in 1..Len(pm.peer_matchings) :
                 nodes[pm.peer_matchings[j][2]].syndrome_index = s}}

\* the virtual vertices paired with vertex s in the virtual matchings
VirtualsOf(pm, s) ==
    {pm.virtual_matchings[k][2] :
        k \in {j \in 1..Len(pm.virtual_matchings) :
                 nodes[pm.virtual_matchings[j][1]].syndrome_index = s}}

Present(pm, s) == PeersOf(pm, s) # {} \/ VirtualsOf(pm, s) # {}

---------------------------------------------------------------------------
(* Properties *)

\* C1: leaf coverage.  Over a well-formed forest and an intermediate matching
\* that holds every top-level node once, get_perfect_matching succeeds and
\* every syndrome vertex of the forest occurs exactly once across the peer
\* and virtual pairings; no unordered pair occurs twice.
C1_LeafCoverage ==
    (/\ call.op = "get_perfect_matching"
     /\ WellFormed(nodes)
     /\ ValidMatching(nodes, intermediate_matching))
    => /\ ret.status = "ok"
       /\ \A n \in DOMAIN nodes : IsSyndrome(nodes, n) => Occurrences(ret, n) = 1
       /\ \A j, k \in 1..Len(ret.pairs) :
             {ret.pairs[j][1], ret.pairs[j][2]} = {ret.pairs[k][1], ret.pairs[k][2]} => j = k

\* C1 witness: a nested blossom matched to a virtual vertex has been expanded
C1_Witness ==
    /\ call.op = "get_perfect_matching"
    /\ WellFormed(nodes)
    /\ ValidMatching(nodes, intermediate_matching)
    /\ NumBlossoms(nodes) = 2
    /\ Cardinality(Tops(nodes)) = 1
    /\ ret.status = "ok"
    /\ Len(ret.pairs) = 2
    /\ Len(ret.virtual) = 1

\* C2: recursive consistency.  Every node in every pair and in every virtual
\* pairing returned by get_perfect_matching, expand_peer_matching or
\* expand_blossom is a syndrome vertex, whatever the nesting of the blossoms.
C2_OnlySyndromeVertices ==
    call.op \in ExpansionOps
    => /\ \A k \in 1..Len(ret.pairs) :
             IsSyndrome(nodes, ret.pairs[k][1]) /\ IsSyndrome(nodes, ret.pairs[k][2])
       /\ \A k \in 1..Len(ret.virtual) : IsSyndrome(nodes, ret.virtual[k][1])

\* C2 witness: an expansion paired the siblings of a circle one of which is
\* itself a blossom
C2_Witness ==
    /\ call.op \in ExpansionOps
    /\ ret.status = "ok"
    /\ \E lv \in LevelsOf(ret) :
          /\ lv.parent_is_blossom
          /\ \E k \in 1..Len(lv.steps) :
                IsBlossom(nodes, lv.steps[k].dual_node_ptr_1)
                \/ IsBlossom(nodes, lv.steps[k].dual_node_ptr_2)
    /\ Len(ret.pairs) >= 3

\* C3: legacy projection.  When every requested vertex is present in the
\* matching, legacy_get_mwpm_result returns a list as long as the request
\* whose i-th element is the syndrome index of the i-th vertex's peer if it
\* is peer-matched and otherwise the virtual vertex paired with it.
C3_LegacyProjection ==
    (/\ call.op = "legacy_get_mwpm_result"
     /\ \A k \in 1..Len(call.args) : Present(perfect_matching, call.args[k]))
    => /\ ret.status = "ok"
       /\ Len(ret.mwpm_result) = Len(call.args)
       /\ \A k \in 1..Len(call.args) :
             IF PeersOf(perfect_matching, call.args[k]) # {}
             THEN ret.mwpm_result[k] \in PeersOf(perfect_matching, call.args[k])
             ELSE ret.mwpm_result[k] \in VirtualsOf(perfect_matching, call.args[k])

\* C3 witness: a request for a virtually matched vertex followed by the
\* second vertex of a peer pair has been answered
C3_Witness ==
    /\ call.op = "legacy_get_mwpm_result"
    /\ Len(call.args) = 2
    /\ PeersOf(perfect_matching, call.args[1]) = {}
    /\ VirtualsOf(perfect_matching, call.args[1]) # {}
    /\ \E k \in 1..Len(perfect_matching.peer_matchings) :
          nodes[perfect_matching.peer_matchings[k][2]].syndrome_index = call.args[2]
    /\ ret.status = "ok"
    /\ Len(ret.mwpm_result) = 2

\* C4: missing syndrome vertex.  When a requested vertex is in neither map,
\* legacy_get_mwpm_result panics naming the first such vertex and returns no
\* result list.
C4_MissingVertexFails ==
    (/\ call.op = "legacy_get_mwpm_result"
     /\ \E k \in 1..Len(call.args) : ~Present(perfect_matching, call.args[k]))
    => LET first == CHOOSE k \in 1..Len(call.args) :
                       /\ ~Present(perfect_matching, call.args[k])
                       /\ \A j \in 1..(k - 1) : Present(perfect_matching, call.args[j])
       IN  /\ ret.status = "panic"
           /\ ret.msg = "cannot find syndrome vertex"
           /\ ret.index = call.args[first]
           /\ ret.mwpm_result = <<>>

\* C4 witness: a request whose second vertex is missing, after a present one
C4_Witness ==
    /\ call.op = "legacy_get_mwpm_result"
    /\ Len(call.args) = 2
    /\ Present(perfect_matching, call.args[1])
    /\ ~Present(perfect_matching, call.args[2])
    /\ ret.status = "panic"

\* C5 as stated: for any forest, when touching is neither the blossom nor
\* below it, expand_blossom fails with the error that names a parentless node.
C5_FailsNamingParentlessAncestor ==
    (/\ call.op = "expand_blossom"
     /\ call.args[1] \notin AncestorsOrSelf(nodes, call.args[2]))
    => /\ ret.status = "panic"
       /\ ret.msg = "cannot find parent of"
       /\ ret.index \in Tops(nodes)

\* C5 as amended: for any forest, when touching is neither the blossom nor
\* below it, expand_blossom never returns a pairing sequence: it fails; and
\* when the forest is well formed the failure is the error naming the
\* parentless node at the end of touching's parent chain.
C5_FailsAndNamesRootWhenWellFormed ==
    (/\ call.op = "expand_blossom"
     /\ call.args[1] \notin AncestorsOrSelf(nodes, call.args[2]))
    => /\ ret.status = "panic"
       /\ ret.pairs = <<>>
       /\ WellFormed(nodes) =>
             /\ ret.msg = "cannot find parent of"
             /\ ret.index = RootOf(nodes, call.args[2])

\* C5 witness: over a well-formed forest the walk climbed two blossoms from
\* a syndrome vertex, did not meet the blossom asked for and failed at the root
C5_Witness ==
    /\ call.op = "expand_blossom"
    /\ call.args[1] \notin AncestorsOrSelf(nodes, call.args[2])
    /\ WellFormed(nodes)
    /\ Cardinality(AncestorsOrSelf(nodes, call.args[2])) = 3
    /\ ret.status = "panic"
    /\ ret.msg = "cannot find parent of"
    /\ ret.index = RootOf(nodes, call.args[2])

\* C6: blossom parity.  An expansion that returns has paired siblings only
\* in circles of odd length >= 3: on any other circle it aborts.
C6_InvalidCircleAborts ==
    (call.op \in ExpansionOps /\ ret.status = "ok")
    => \A lv \in LevelsOf(ret) :
          lv.parent_is_blossom => (lv.n % 2 = 1 /\ lv.n >= 3)

\* C7: end-to-end parallel decode.  The test of the parallel primal module
\* runs its grow/resolve loop to convergence without failing.
C7_TestRunsWithoutFailing ==
    test_pc # "panicked"

\* C8: expansion is read-only.  A call of get_perfect_matching,
\* expand_peer_matching or expand_blossom, successful or failed, leaves the
\* node forest and the intermediate matching as they were.
C8_ExpansionReadOnly ==
    [][call'.op \in ExpansionOps
         => (nodes' = nodes /\ intermediate_matching' = intermediate_matching)]_vars

\* C8 witness: get_perfect_matching has expanded a matching with a peer pair
\* over a forest with a blossom
C8_Witness ==
    /\ call.op = "get_perfect_matching"
    /\ ret.status = "ok"
    /\ NumBlossoms(nodes) >= 1
    /\ Len(intermediate_matching.peer_matchings) >= 1
    /\ Len(ret.pairs) >= 2

\* C9: per-level pairing.  At a child found at position idx of a circle of
\* odd length n >= 3, exactly (n-1)/2 sibling pairs are expanded, at positions
\* (idx+1+2k, idx+2+2k) mod n, each through the right touch of the first and
\* the left touch of the second; every position but idx is in exactly one
\* pair, idx in none, and the touching pair is among the pairs returned.
C9_PerLevelPairing ==
    (call.op \in ExpansionOps /\ ret.status = "ok")
    => \A lv \in LevelsOf(ret) :
          (lv.parent_is_blossom /\ lv.n % 2 = 1 /\ lv.n >= 3) =>
             LET P == nodes[lv.parent]
                 used == [k \in 1..(2 * Len(lv.steps)) |->
                             IF k % 2 = 1 THEN lv.steps[(k + 1) \div 2].idx_1
                             ELSE lv.steps[(k + 1) \div 2].idx_2]
             IN  /\ P.nodes_circle[lv.idx + 1] = lv.child
                 /\ 2 * Len(lv.steps) = lv.n - 1
                 /\ \A k \in 1..Len(lv.steps) :
                       LET s == lv.steps[k]
                       IN  /\ s.idx_1 = (lv.idx + 1 + 2 * (k - 1)) % lv.n
                           /\ s.idx_2 = (lv.idx + 2 + 2 * (k - 1)) % lv.n
                           /\ s.touching_ptr_1 = P.touching_children[s.idx_1 + 1][2]
                           /\ s.touching_ptr_2 = P.touching_children[s.idx_2 + 1][1]
                           /\ \E j \in 1..Len(ret.pairs) :
                                 ret.pairs[j] = <<s.touching_ptr_1, s.touching_ptr_2>>
                 /\ \A q \in 0..(lv.n - 1) :
                       Cardinality({k \in 1..Len(used) : used[k] = q})
                          = IF q = lv.idx THEN 0 ELSE 1

\* C9 witness: a level of a circle of five entered at position 3, so that
\* the pairing wraps around the end of the circle; and a level whose sibling
\* has different left and right touching children
C9_Witness ==
    /\ call.op \in ExpansionOps
    /\ ret.status = "ok"
    /\ \E lv \in LevelsOf(ret) :
          /\ lv.parent_is_blossom /\ lv.n = 5 /\ lv.idx = 3 /\ Len(lv.steps) = 2

\* C10: structural corruption aborts.  An expansion that returns has, at
\* every node its walks visited, found the node in the circle of the blossom
\* its parent_blossom refers to.
C10_CorruptionAborts ==
    (call.op \in ExpansionOps /\ ret.status = "ok")
    => \A lv \in LevelsOf(ret) :
          /\ IsBlossom(nodes, lv.parent)
          /\ lv.child \in Range(nodes[lv.parent].nodes_circle)

====
